---- MODULE Spec2Model ----
(***************************************************************************)
(* Model of app.py: the two-stage document pipeline (OCR call, then chat   *)
(* normalisation), the batch loop that drives it and fills the session     *)
(* result store, and the URL acquisition helper.                           *)
(*                                                                         *)
(* Text is modelled as sequences of one-character strings wherever the     *)
(* code builds or inspects it character by character (page headers, URL    *)
(* suffix tests); messages that are only passed around are TLA+ strings.   *)
(* A Python dict is a function whose DOMAIN is the set of keys present.    *)
(***************************************************************************)
EXTENDS Integers, Sequences, FiniteSets, TLC

VARIABLES
    results_store,   \* st.session_state.results: insertion-ordered <<name, res>> entries
    input_data,      \* list of (name, mime) collected by the current script run
    api_key_input,   \* whether the sidebar key field is non-empty in the current run
    start_processing,\* whether the run was triggered by the start button
    pc,              \* position of the batch loop: "idle", "loop", "ocr", "chat"
    idx,             \* 1-based position of the loop in input_data
    results,         \* process_document's local dict while its chat call is pending
    outstanding,     \* calls to the external services that have not returned yet
    status_text,     \* what the status placeholder shows
    ui_errors,       \* st.error messages of the current run
    call_log,        \* history: calls issued during the current batch, in order
    returned,        \* history: per index of the current batch, what its iteration did
    doc_ocr,         \* single-document harness: the OCR engine's answer
    doc_chat,        \* single-document harness: the chat engine's answer
    doc_out,         \* single-document harness: what process_document returned
    url_input,       \* URL harness: the URL typed in the second tab
    url_fetch,       \* URL harness: the outcome of requests.get
    url_out          \* URL harness: what get_file_from_url returned

vars == <<results_store, input_data, api_key_input, start_processing, pc, idx,
          results, outstanding, status_text, ui_errors, call_log, returned,
          doc_ocr, doc_chat, doc_out, url_input, url_fetch, url_out>>

batchVars == <<results_store, input_data, api_key_input, start_processing, pc, idx,
               results, outstanding, status_text, ui_errors, call_log, returned>>

docVars == <<doc_ocr, doc_chat, doc_out>>

urlVars == <<url_input, url_fetch, url_out>>

None == "None"

\* An optional value is a sequence of length 0 (absent) or 1 (present).
Absent == <<>>

Some(v) == <<v>>

(***************************************************************************)
(* Bounds of the model.                                                    *)
(***************************************************************************)
MaxPages == 2        \* pages in one OCR answer of the single-document harness
MaxBatch == 3        \* documents in one batch submission

(***************************************************************************)
(* Text helpers.                                                           *)
(***************************************************************************)
DigitChar == <<"0", "1", "2", "3", "4", "5", "6", "7", "8", "9">>

IsDigit(c) == \E d \in 1..10 : DigitChar[d] = c

\* str(n) for a natural number n, as Python's f-string formats it.
RECURSIVE Str(_)
Str(n) ==
    IF n < 10 THEN <<DigitChar[n + 1]>>
    ELSE Str(n \div 10) \o <<DigitChar[(n % 10) + 1]>>

StartsWithAt(s, p, t) ==
    /\ p >= 1
    /\ p + Len(t) - 1 <= Len(s)
    /\ SubSeq(s, p, p + Len(t) - 1) = t

Contains(s, t) == \E p \in 1..(Len(s) + 1) : StartsWithAt(s, p, t)

EndsWith(s, t) == Len(t) <= Len(s) /\ SubSeq(s, Len(s) - Len(t) + 1, Len(s)) = t

RECURSIVE Concat(_)
Concat(ss) == IF ss = <<>> THEN <<>> ELSE Head(ss) \o Concat(Tail(ss))

(***************************************************************************)
(* process_document, stage 1: the OCR answer and the page assembly.        *)
(***************************************************************************)
HeaderHead == <<"\n", "\n", "-", "-", "-", " ", "P", "a", "g", "i", "n", "a", " ">>

HeaderTail == <<" ", "-", "-", "-", "\n", "\n">>

\* header = f"\n\n--- Pagina {i+1} ---\n\n", i the zero-based enumerate index
Header_zeroBased(i) == HeaderHead \o Str(i) \o HeaderTail

Header(i) == HeaderHead \o Str(i + 1) \o HeaderTail

\* the for loop over enumerate(ocr_response.pages): full_markdown += header + page.markdown
RECURSIVE FullMarkdown(_, _)
FullMarkdown(pages, done) ==
    IF done = Len(pages) THEN <<>>
    ELSE Header(done) \o pages[done + 1] \o FullMarkdown(pages, done + 1)

OCR_EMPTY == "L'OCR ha completato l'analisi ma non ha rilevato testo."

\* An OCR answer is [exc |-> message or None, pages |-> sequence of page markdowns].
\* The result is the dict after the first try block and whether the function
\* returned from inside it.
OcrStage_noPageCheck(ocr) ==
    IF ocr.exc # None
    THEN [res |-> ("error" :> ("Errore API OCR: " \o ocr.exc)), ret |-> TRUE]
    ELSE [res |-> ("raw_ocr" :> FullMarkdown(ocr.pages, 0)) @@ ("pages_count" :> Len(ocr.pages)),
          ret |-> FALSE]

OcrStage(ocr) ==
    IF ocr.exc # None
    THEN [res |-> ("error" :> ("Errore API OCR: " \o ocr.exc)), ret |-> TRUE]
    ELSE LET page_count == Len(ocr.pages) IN
         IF page_count > 0
         THEN [res |-> ("raw_ocr" :> FullMarkdown(ocr.pages, 0)) @@ ("pages_count" :> page_count),
               ret |-> FALSE]
         ELSE [res |-> ("error" :> OCR_EMPTY), ret |-> TRUE]

(***************************************************************************)
(* process_document, stage 2: the chat call.                               *)
(***************************************************************************)
SYSTEM_PROMPT == "SYSTEM_PROMPT"

\* the two-message request built from the dict of stage 1
ChatRequest(res) ==
    [system |-> SYSTEM_PROMPT,
     pages_count |-> IF "pages_count" \in DOMAIN res THEN res["pages_count"] ELSE 1,
     raw |-> res["raw_ocr"]]

\* A chat answer is [exc |-> message or None, choices |-> sequence of contents];
\* choices[0] of an empty list raises IndexError inside the same try block.
ChatStage_errorField(res, chat) ==
    IF chat.exc # None
    THEN ("error" :> ("Errore Normalizzazione: " \o chat.exc)) @@ res
    ELSE IF Len(chat.choices) = 0
    THEN ("error" :> ("Errore Normalizzazione: " \o "list index out of range")) @@ res
    ELSE ("normalized" :> chat.choices[1]) @@ res

ChatStage(res, chat) ==
    IF chat.exc # None
    THEN ("normalized" :> ("Errore Normalizzazione: " \o chat.exc)) @@ res
    ELSE IF Len(chat.choices) = 0
    THEN ("normalized" :> ("Errore Normalizzazione: " \o "list index out of range")) @@ res
    ELSE ("normalized" :> chat.choices[1]) @@ res

\* The whole function on given engine answers, with the number of calls it made.
process_document(ocr, chat) ==
    LET s1 == OcrStage(ocr) IN
    IF s1.ret
    THEN [res |-> s1.res, ocr_calls |-> 1, chat_calls |-> 0]
    ELSE [res |-> ChatStage(s1.res, chat), ocr_calls |-> 1, chat_calls |-> 1]

(***************************************************************************)
(* What the engines can answer.                                            *)
(***************************************************************************)
\* Page markdowns the OCR engine may return: empty, plain, dashes, a text
\* quoting a page header, and a text ending like the start of one.
PageTexts ==
    { <<>>,
      <<"a">>,
      <<"-", "-", "-">>,
      HeaderHead \o <<"1">> \o HeaderTail,
      HeaderHead \o <<"2">> \o <<" ", "-", "-", "-">> }

\* what the engines answer inside a batch: an OCR error, no page, one page,
\* two pages; a chat text or a chat error
BatchOcrAnswers ==
    { [exc |-> None, pages |-> p] : p \in { <<>>, << <<"a">> >>, << <<"a">>, <<>> >> } }
      \cup { [exc |-> e, pages |-> <<>>] : e \in { "timeout" } }

BatchChatAnswers ==
    { [exc |-> None, choices |-> <<"testo normalizzato">>],
      [exc |-> "503", choices |-> <<>>] }

PageSeqs(texts, n) == UNION { [1..k -> texts] : k \in 0..n }

OcrErrors == { "timeout" }

OcrAnswers(texts, n) ==
    { [exc |-> None, pages |-> p] : p \in PageSeqs(texts, n) }
      \cup { [exc |-> e, pages |-> <<>>] : e \in OcrErrors }

ChatContents == { "testo normalizzato" }

ChatErrors == { "503" }

ChatAnswers ==
    { [exc |-> None, choices |-> <<c>>] : c \in ChatContents }
      \cup { [exc |-> None, choices |-> <<>>] }
      \cup { [exc |-> e, choices |-> <<>>] : e \in ChatErrors }

(***************************************************************************)
(* Initial values of the three groups of variables.                        *)
(***************************************************************************)
BatchIdle ==
    /\ results_store = <<>>
    /\ input_data = <<>>
    /\ api_key_input = FALSE
    /\ start_processing = FALSE
    /\ pc = "idle"
    /\ idx = 0
    /\ results = Absent
    /\ outstanding = {}
    /\ status_text = ""
    /\ ui_errors = {}
    /\ call_log = <<>>
    /\ returned = <<>>

DocIdle ==
    /\ doc_ocr = [exc |-> None, pages |-> <<>>]
    /\ doc_chat = [exc |-> None, choices |-> <<>>]
    /\ doc_out = Absent

UrlIdle ==
    /\ url_input = <<>>
    /\ url_fetch = [ok |-> FALSE, content_type |-> Absent, nbytes |-> 0]
    /\ url_out = Absent

(***************************************************************************)
(* Single-document harness: process_document on every engine answer.       *)
(***************************************************************************)
InitDoc ==
    /\ BatchIdle
    /\ UrlIdle
    /\ doc_ocr \in OcrAnswers(PageTexts, MaxPages)
    /\ doc_chat \in ChatAnswers
    /\ doc_out = Absent

RunProcessDocument ==
    /\ doc_out = Absent
    /\ doc_out' = Some(process_document(doc_ocr, doc_chat))
    /\ UNCHANGED <<doc_ocr, doc_chat>>
    /\ UNCHANGED batchVars
    /\ UNCHANGED urlVars

NextDoc == RunProcessDocument

SpecDoc == InitDoc /\ [][NextDoc]_vars

(***************************************************************************)
(* Reading a raw text back: where page headers occur in it.                *)
(***************************************************************************)
\* the run of digit characters of s that starts at position q
RECURSIVE DigitRun(_, _)
DigitRun(s, q) ==
    IF q <= Len(s) /\ IsDigit(s[q]) THEN <<s[q]>> \o DigitRun(s, q + 1) ELSE <<>>

\* an occurrence of "\n\n--- Pagina <number> ---\n\n" begins at position p of s
IsMarkerAt(s, p) ==
    /\ StartsWithAt(s, p, HeaderHead)
    /\ LET d == DigitRun(s, p + Len(HeaderHead)) IN
         /\ Len(d) >= 1
         /\ StartsWithAt(s, p + Len(HeaderHead) + Len(d), HeaderTail)

MarkerPositions(s) == { p \in 1..Len(s) : IsMarkerAt(s, p) }

MarkerNumber(s, p) == DigitRun(s, p + Len(HeaderHead))

MarkerLen(s, p) == Len(HeaderHead) + Len(MarkerNumber(s, p)) + Len(HeaderTail)

\* 1 for the first occurrence in s, 2 for the second, ...
MarkerRank(s, p) == Cardinality({ q \in MarkerPositions(s) : q <= p })

\* the page-boundary marker of page k (k counted from 1)
MarkerFor(k) == HeaderHead \o Str(k) \o HeaderTail

ExpectedRaw(pages) == Concat([k \in 1..Len(pages) |-> MarkerFor(k) \o pages[k]])

\* the fixed words of a marker, without the surrounding newlines
MarkerWords == <<"-", "-", "-", " ", "P", "a", "g", "i", "n", "a", " ">>

DocRan == doc_out # Absent

DocRes == doc_out[1].res

OcrGavePages == doc_ocr.exc = None /\ Len(doc_ocr.pages) >= 1

ErrorIndicators ==
    { "Errore Normalizzazione: " \o m : m \in ChatErrors \cup { "list index out of range" } }

ChatFailed(chat) == chat.exc # None \/ Len(chat.choices) = 0

\* C1: when the OCR engine answers with zero pages, the result carries error,
\* carries neither raw_ocr nor normalized, and the chat engine was not called.
C1_ZeroPagesIsError ==
    (DocRan /\ doc_ocr.exc = None /\ Len(doc_ocr.pages) = 0) =>
        /\ "error" \in DOMAIN DocRes
        /\ "raw_ocr" \notin DOMAIN DocRes
        /\ "normalized" \notin DOMAIN DocRes
        /\ doc_out[1].chat_calls = 0

C1_Witness ==
    /\ DocRan
    /\ doc_ocr.exc = None
    /\ Len(doc_ocr.pages) = 0
    /\ ~ChatFailed(doc_chat)

\* C2: when the OCR call gave at least one page and the chat call then failed,
\* the result has no error, raw_ocr is the text assembled from the pages,
\* pages_count is the number of pages, and normalized is an error indicator
\* and not a chat output.
C2_ChatFailureKeepsOcr ==
    (DocRan /\ OcrGavePages /\ ChatFailed(doc_chat)) =>
        /\ "error" \notin DOMAIN DocRes
        /\ DOMAIN DocRes = {"raw_ocr", "pages_count", "normalized"}
        /\ DocRes["raw_ocr"] = ExpectedRaw(doc_ocr.pages)
        /\ DocRes["pages_count"] = Len(doc_ocr.pages)
        /\ DocRes["normalized"] \in ErrorIndicators
        /\ DocRes["normalized"] \notin ChatContents
        /\ doc_out[1].chat_calls = 1

C2_Witness ==
    /\ DocRan
    /\ Len(doc_ocr.pages) = 2
    /\ doc_ocr.exc = None
    /\ doc_chat.exc # None
    /\ DocRes["normalized"] \in ErrorIndicators

\* C3 as stated: for N >= 1 pages of any text, raw_ocr holds exactly N marker
\* occurrences, numbered 1..N in order, each right before its page's text,
\* and pages_count = N.
C3_ExactlyNMarkers ==
    (DocRan /\ OcrGavePages) =>
        LET raw == DocRes["raw_ocr"]
            N == Len(doc_ocr.pages)
        IN  /\ DocRes["pages_count"] = N
            /\ Cardinality(MarkerPositions(raw)) = N
            /\ \A p \in MarkerPositions(raw) :
                 /\ MarkerNumber(raw, p) = Str(MarkerRank(raw, p))
                 /\ StartsWithAt(raw, p + MarkerLen(raw, p), doc_ocr.pages[MarkerRank(raw, p)])

NoPageQuotesMarker == \A k \in 1..Len(doc_ocr.pages) : ~Contains(doc_ocr.pages[k], MarkerWords)

\* C3 amended: for N >= 1 pages, raw_ocr is marker 1, page 1, marker 2, page 2,
\* ..., marker N, page N with nothing else, and pages_count = N; it holds at
\* least N marker occurrences, and exactly N, numbered 1..N in order and each
\* right before its page's text, when no page text contains "--- Pagina ".
C3_MarkersOfCleanPages ==
    (DocRan /\ OcrGavePages) =>
        LET raw == DocRes["raw_ocr"]
            N == Len(doc_ocr.pages)
        IN  /\ DocRes["pages_count"] = N
            /\ raw = ExpectedRaw(doc_ocr.pages)
            /\ Cardinality(MarkerPositions(raw)) >= N
            /\ NoPageQuotesMarker =>
                 /\ Cardinality(MarkerPositions(raw)) = N
                 /\ \A p \in MarkerPositions(raw) :
                      /\ MarkerNumber(raw, p) = Str(MarkerRank(raw, p))
                      /\ StartsWithAt(raw, p + MarkerLen(raw, p), doc_ocr.pages[MarkerRank(raw, p)])

C3_Witness ==
    /\ DocRan
    /\ doc_ocr.exc = None
    /\ Len(doc_ocr.pages) = 2
    /\ NoPageQuotesMarker
    /\ doc_ocr.pages[1] = <<"-", "-", "-">>
    /\ Cardinality(MarkerPositions(DocRes["raw_ocr"])) = 2

(***************************************************************************)
(* get_file_from_url and the URL tab that calls it.                        *)
(***************************************************************************)
UpperChars == <<"A", "B", "C", "D", "E", "F", "G", "H", "I", "J", "K", "L", "M",
                "N", "O", "P", "Q", "R", "S", "T", "U", "V", "W", "X", "Y", "Z">>

LowerChars == <<"a", "b", "c", "d", "e", "f", "g", "h", "i", "j", "k", "l", "m",
                "n", "o", "p", "q", "r", "s", "t", "u", "v", "w", "x", "y", "z">>

LowerChar(c) ==
    IF \E k \in 1..26 : UpperChars[k] = c
    THEN LowerChars[CHOOSE k \in 1..26 : UpperChars[k] = c]
    ELSE c

\* str.lower()
Lower(s) == [k \in 1..Len(s) |-> LowerChar(s[k])]

EXT_PDF == <<".", "p", "d", "f">>

EXT_JPG == <<".", "j", "p", "g">>

EXT_JPEG == <<".", "j", "p", "e", "g">>

EXT_PNG == <<".", "p", "n", "g">>

\* A fetch is [ok |-> the GET returned a success status, content_type |-> the
\* optional response header, nbytes |-> length of the body]. The result is the
\* pair (bytes, mime), (None, None) after an exception.
get_file_from_url_headerFirst(url, fetch) ==
    IF ~fetch.ok
    THEN [file_bytes |-> 0, mime |-> None, failed |-> TRUE]
    ELSE [file_bytes |-> fetch.nbytes,
          mime |-> IF fetch.content_type # Absent THEN fetch.content_type[1]
                   ELSE IF EndsWith(Lower(url), EXT_PDF) THEN "application/pdf"
                   ELSE IF EndsWith(Lower(url), EXT_JPG) \/ EndsWith(Lower(url), EXT_JPEG)
                        THEN "image/jpeg"
                   ELSE IF EndsWith(Lower(url), EXT_PNG) THEN "image/png"
                   ELSE "application/pdf",
          failed |-> FALSE]

get_file_from_url(url, fetch) ==
    IF ~fetch.ok
    THEN [file_bytes |-> 0, mime |-> None, failed |-> TRUE]
    ELSE LET content_type ==
                 IF fetch.content_type # Absent THEN fetch.content_type[1]
                 ELSE "application/pdf"
         IN  [file_bytes |-> fetch.nbytes,
              mime |-> IF EndsWith(Lower(url), EXT_PDF) THEN "application/pdf"
                       ELSE IF EndsWith(Lower(url), EXT_JPG) \/ EndsWith(Lower(url), EXT_JPEG)
                            THEN "image/jpeg"
                       ELSE IF EndsWith(Lower(url), EXT_PNG) THEN "image/png"
                       ELSE content_type,
              failed |-> FALSE]

\* url_input.split("/")[-1]: what follows the last "/"
RECURSIVE LastSegment(_)
LastSegment(s) ==
    IF s = <<>> \/ s[Len(s)] = "/" THEN <<>>
    ELSE LastSegment(SubSeq(s, 1, Len(s) - 1)) \o <<s[Len(s)]>>

DOCUMENTO_WEB == <<"d", "o", "c", "u", "m", "e", "n", "t", "o", "_", "w", "e", "b">>

name_from_url(url) == IF LastSegment(url) # <<>> THEN LastSegment(url) ELSE DOCUMENTO_WEB

UrlPrefix == <<"h", "t", "t", "p", ":", "/", "/", "h", "/">>

UrlFiles ==
    { <<>>,
      <<"p", "d", "f">>,
      <<"a", ".", "t", "x", "t">>,
      <<"a", ".", "p", "d", "f">>,
      <<"a", ".", "P", "d", "F">>,
      <<"a", ".", "j", "p", "g">>,
      <<"a", ".", "J", "P", "E", "G">>,
      <<"a", ".", "p", "n", "g">> }

UrlSuffixes ==
    { <<>>,
      <<"?", "v", "=", "1">>,
      <<"?", "f", "=", "b", ".", "p", "n", "g">>,
      <<"#", "p", "2">> }

Urls == { UrlPrefix \o f \o q : f \in UrlFiles, q \in UrlSuffixes }

ContentTypes == { "text/html", "image/png", "application/pdf" }

MaxBody == 1         \* length of a fetched body

Fetches ==
    { [ok |-> TRUE, content_type |-> h, nbytes |-> n] :
        h \in {Absent} \cup { Some(c) : c \in ContentTypes }, n \in 0..MaxBody }
      \cup { [ok |-> FALSE, content_type |-> Absent, nbytes |-> 0] }

InitUrl ==
    /\ BatchIdle
    /\ DocIdle
    /\ url_input \in Urls
    /\ url_fetch \in Fetches
    /\ url_out = Absent

\* the body of "with tab2:" for a non-empty url_input
FetchUrl ==
    /\ url_out = Absent
    /\ LET got == get_file_from_url(url_input, url_fetch) IN
         /\ url_out' = Some(got)
         /\ ui_errors' = IF got.failed THEN ui_errors \cup {"Errore nel scaricare il file dall'URL"}
                         ELSE ui_errors
         /\ input_data' = IF got.file_bytes > 0
                          THEN Append(input_data, [name |-> name_from_url(url_input), mime |-> got.mime])
                          ELSE input_data
    /\ UNCHANGED <<url_input, url_fetch>>
    /\ UNCHANGED <<results_store, api_key_input, start_processing, pc, idx, results,
                   outstanding, status_text, call_log, returned>>
    /\ UNCHANGED docVars

NextUrl == FetchUrl

SpecUrl == InitUrl /\ [][NextUrl]_vars

\* the part of a URL before its query string or fragment
RECURSIVE UrlPath(_)
UrlPath(s) ==
    IF s = <<>> \/ Head(s) = "?" \/ Head(s) = "#" THEN <<>>
    ELSE <<Head(s)>> \o UrlPath(Tail(s))

\* the media type that extension-over-header precedence gives for the text t
ByExtension(t, fetch) ==
    CASE EndsWith(Lower(t), EXT_PDF) -> "application/pdf"
      [] EndsWith(Lower(t), EXT_JPG) -> "image/jpeg"
      [] EndsWith(Lower(t), EXT_JPEG) -> "image/jpeg"
      [] EndsWith(Lower(t), EXT_PNG) -> "image/png"
      [] OTHER -> IF fetch.content_type = Absent THEN "application/pdf"
                  ELSE fetch.content_type[1]

UrlFetched == url_out # Absent /\ url_fetch.ok

\* C8 as stated: after a successful fetch the media type follows the extension
\* of the URL's path (.pdf, .jpg/.jpeg, .png, case-insensitively) whatever the
\* header says, the header when no extension matches, application/pdf when
\* there is no header.
C8_PathExtensionWins ==
    UrlFetched => url_out[1].mime = ByExtension(UrlPath(url_input), url_fetch)

\* C8 amended: the same precedence, with the extension looked for at the end of
\* the whole URL string (query string and fragment included), not of its path.
C8_UrlSuffixWins ==
    UrlFetched => url_out[1].mime = ByExtension(url_input, url_fetch)

C8_Witness ==
    /\ UrlFetched
    /\ url_input = UrlPrefix \o <<"a", ".", "P", "d", "F">>
    /\ url_fetch.content_type = Some("text/html")
    /\ url_out[1].mime = "application/pdf"
    /\ Len(input_data) = 1

(***************************************************************************)
(* The batch: the start button, the loop over input_data, the clear button.*)
(***************************************************************************)
\* files the uploader can hand over: (name, type); type may be empty
Uploads ==
    { [name |-> "a.pdf", mime |-> "application/pdf"],
      [name |-> "b", mime |-> ""] }

Batches == UNION { [1..k -> Uploads] : k \in 1..MaxBatch }

\* "if not api_key_input"
MissingCredential_never(key) == FALSE

MissingCredential(key) == ~key

\* the media type handed to encode_file_to_base64 for a declared type
PayloadMime(mime) ==
    IF mime = "application/pdf" THEN "application/pdf"
    ELSE IF mime # "" THEN mime ELSE "image/jpeg"

\* The data URI of a document, None (absent) when b64encode raised.
encode_file_to_base64(enc_ok, name, mime_type) ==
    IF enc_ok THEN Some([media_type |-> mime_type, base64_of |-> name]) ELSE Absent

\* "if base64_file:"
ShouldProcess_always(base64_file) == TRUE

ShouldProcess(base64_file) == base64_file # Absent

HasKey(store, name) == \E i \in 1..Len(store) : store[i].name = name

KeyIndex(store, name) == CHOOSE i \in 1..Len(store) : store[i].name = name

\* st.session_state.results[name] = res on an insertion-ordered dict
Put_append(store, name, res) == Append(store, [name |-> name, res |-> res])

Put_merge(store, name, res) ==
    IF HasKey(store, name)
    THEN [store EXCEPT ![KeyIndex(store, name)] =
              [name |-> name, res |-> res @@ store[KeyIndex(store, name)].res]]
    ELSE Append(store, [name |-> name, res |-> res])

Put(store, name, res) ==
    IF HasKey(store, name)
    THEN [store EXCEPT ![KeyIndex(store, name)] = [name |-> name, res |-> res]]
    ELSE Append(store, [name |-> name, res |-> res])

\* Where the loop stands once iteration i of n is over; res is the optional
\* result of that iteration.
AfterDoc_abortOnError(res, i, n) ==
    IF i = n \/ (res # Absent /\ "error" \in DOMAIN res[1])
    THEN [pc |-> "idle", idx |-> i, status_text |-> "completed"]
    ELSE [pc |-> "loop", idx |-> i + 1, status_text |-> "progress"]

AfterDoc(res, i, n) ==
    IF i = n
    THEN [pc |-> "idle", idx |-> i, status_text |-> "completed"]
    ELSE [pc |-> "loop", idx |-> i + 1, status_text |-> "progress"]

\* a blocking call has returned: it is no longer outstanding
CallReturned_leak(calls, c) == calls

CallReturned(calls, c) == calls \ {c}

Init ==
    /\ BatchIdle
    /\ DocIdle
    /\ UrlIdle

\* A script run with the start button pressed.
Submit(docs, key) ==
    /\ pc = "idle"
    /\ input_data' = docs
    /\ api_key_input' = key
    /\ start_processing' = TRUE
    /\ call_log' = <<>>
    /\ returned' = <<>>
    /\ results' = Absent
    /\ IF MissingCredential(key)
       THEN /\ ui_errors' = {"Chiave API mancante nella barra laterale."}
            /\ status_text' = ""
            /\ UNCHANGED <<results_store, pc, idx, outstanding>>
       ELSE /\ ui_errors' = {}
            /\ status_text' = "progress"
            /\ pc' = "loop"
            /\ idx' = 1
            /\ UNCHANGED <<results_store, outstanding>>
    /\ UNCHANGED docVars
    /\ UNCHANGED urlVars

\* Top of a loop iteration: encode the document and, with a payload, enter
\* process_document up to its blocking OCR call.
StartDoc(enc_ok) ==
    /\ pc = "loop"
    /\ LET doc == input_data[idx]
           base64_file == encode_file_to_base64(enc_ok, doc.name, PayloadMime(doc.mime))
       IN  /\ ui_errors' = IF base64_file = Absent
                           THEN ui_errors \cup {"Errore encoding file"}
                           ELSE ui_errors
           /\ IF ShouldProcess(base64_file)
              THEN /\ outstanding' = outstanding \cup
                                       {[svc |-> "ocr", idx |-> idx, request |-> base64_file]}
                   /\ call_log' = Append(call_log, [svc |-> "ocr", idx |-> idx])
                   /\ pc' = "ocr"
                   /\ UNCHANGED <<idx, status_text, returned>>
              ELSE LET after == AfterDoc(Absent, idx, Len(input_data)) IN
                   /\ returned' = Append(returned,
                                    [encoded |-> FALSE, res |-> Absent, ocr |-> Absent, chat |-> Absent])
                   /\ pc' = after.pc
                   /\ idx' = after.idx
                   /\ status_text' = after.status_text
                   /\ UNCHANGED <<outstanding, call_log>>
    /\ UNCHANGED <<results_store, input_data, api_key_input, start_processing, results>>
    /\ UNCHANGED docVars
    /\ UNCHANGED urlVars

\* The OCR call returns: the rest of the first try block, then either the early
\* return and the store, or the chat request.
OcrReturns(ocr) ==
    /\ pc = "ocr"
    /\ LET call == CHOOSE c \in outstanding : c.svc = "ocr" /\ c.idx = idx
           s1 == OcrStage(ocr)
           name == input_data[idx].name
       IN  IF s1.ret
           THEN LET after == AfterDoc(Some(s1.res), idx, Len(input_data)) IN
                /\ outstanding' = CallReturned(outstanding, call)
                /\ results_store' = Put(results_store, name, s1.res)
                /\ returned' = Append(returned,
                                 [encoded |-> call.request # Absent, res |-> Some(s1.res),
                                  ocr |-> Some(ocr), chat |-> Absent])
                /\ pc' = after.pc
                /\ idx' = after.idx
                /\ status_text' = after.status_text
                /\ UNCHANGED <<results, call_log>>
           ELSE /\ outstanding' = CallReturned(outstanding, call) \cup
                                    {[svc |-> "chat", idx |-> idx, request |-> ChatRequest(s1.res),
                                      ocr |-> ocr, encoded |-> call.request # Absent]}
                /\ call_log' = Append(call_log, [svc |-> "chat", idx |-> idx])
                /\ results' = Some(s1.res)
                /\ pc' = "chat"
                /\ UNCHANGED <<results_store, returned, idx, status_text>>
    /\ UNCHANGED <<input_data, api_key_input, start_processing, ui_errors>>
    /\ UNCHANGED docVars
    /\ UNCHANGED urlVars

\* The chat call returns: the second try block, the return and the store.
ChatReturns(chat) ==
    /\ pc = "chat"
    /\ LET call == CHOOSE c \in outstanding : c.svc = "chat" /\ c.idx = idx
           res == ChatStage(results[1], chat)
           name == input_data[idx].name
           after == AfterDoc(Some(res), idx, Len(input_data))
       IN  /\ outstanding' = CallReturned(outstanding, call)
           /\ results_store' = Put(results_store, name, res)
           /\ returned' = Append(returned,
                            [encoded |-> call.encoded, res |-> Some(res),
                             ocr |-> Some(call.ocr), chat |-> Some(chat)])
           /\ results' = Absent
           /\ pc' = after.pc
           /\ idx' = after.idx
           /\ status_text' = after.status_text
    /\ UNCHANGED <<input_data, api_key_input, start_processing, ui_errors, call_log>>
    /\ UNCHANGED docVars
    /\ UNCHANGED urlVars

\* "Pulisci Sessione": empty the store and rerun the script without a button.
ClearSession ==
    /\ pc = "idle"
    /\ results_store' = <<>>
    /\ start_processing' = FALSE
    /\ status_text' = ""
    /\ ui_errors' = {}
    /\ call_log' = <<>>
    /\ returned' = <<>>
    /\ UNCHANGED <<input_data, api_key_input, pc, idx, results, outstanding>>
    /\ UNCHANGED docVars
    /\ UNCHANGED urlVars

Next ==
    \/ \E docs \in Batches, key \in BOOLEAN : Submit(docs, key)
    \/ \E enc_ok \in BOOLEAN : StartDoc(enc_ok)
    \/ \E ocr \in BatchOcrAnswers : OcrReturns(ocr)
    \/ \E chat \in BatchChatAnswers : ChatReturns(chat)
    \/ ClearSession

Spec == Init /\ [][Next]_vars

(***************************************************************************)
(* Properties of the batch.                                                *)
(***************************************************************************)
Completed == pc = "idle" /\ status_text = "completed"

NameOf(i) == input_data[i].name

StoreGet(name) == results_store[KeyIndex(results_store, name)].res

\* i was encoded and no later document of the batch so far, encoded too,
\* carries its name
LastOfItsName(i) ==
    /\ returned[i].encoded
    /\ \A j \in (i + 1)..Len(returned) : ~(returned[j].encoded /\ NameOf(j) = NameOf(i))

FullSuccess(res) ==
    /\ DOMAIN res = {"raw_ocr", "pages_count", "normalized"}
    /\ res["pages_count"] >= 1
    /\ res["normalized"] \in ChatContents

OcrCallFailed(i) == returned[i].ocr # Absent /\ returned[i].ocr[1].exc # None

CallsSucceeded(i) ==
    /\ returned[i].ocr # Absent
    /\ returned[i].ocr[1].exc = None
    /\ Len(returned[i].ocr[1].pages) >= 1
    /\ returned[i].chat # Absent
    /\ ~ChatFailed(returned[i].chat[1])

InSubmissionOrder ==
    /\ \A k \in 1..(Len(call_log) - 1) : call_log[k].idx <= call_log[k + 1].idx
    /\ \A i \in 1..Len(returned) :
         returned[i].encoded =>
           Cardinality({ k \in 1..Len(call_log) :
                           call_log[k].idx = i /\ call_log[k].svc = "ocr" }) = 1

\* C4 as stated: in a batch with a key where some document's OCR call failed,
\* every document is still processed, each document whose OCR and chat calls
\* succeeded has a full successful result under its name in the store, and the
\* failing document's entry carries error.
C4_FailureIsolated ==
    (Completed /\ \E f \in 1..Len(returned) : OcrCallFailed(f)) =>
        /\ Len(returned) = Len(input_data)
        /\ InSubmissionOrder
        /\ \A i \in 1..Len(returned) :
             /\ CallsSucceeded(i) =>
                  HasKey(results_store, NameOf(i)) /\ FullSuccess(StoreGet(NameOf(i)))
             /\ OcrCallFailed(i) =>
                  HasKey(results_store, NameOf(i)) /\ "error" \in DOMAIN StoreGet(NameOf(i))

\* C4 amended: in such a batch every document is still processed, in submission
\* order, and the entry under each name is the result of the last encoded
\* document submitted under that name: a document whose OCR and chat calls
\* succeeded has its full successful result in the store, and the failing
\* document's entry carries error, unless a later encoded document of the batch
\* has the same name.
C4_FailureIsolatedLastWins ==
    (Completed /\ \E f \in 1..Len(returned) : OcrCallFailed(f)) =>
        /\ Len(returned) = Len(input_data)
        /\ InSubmissionOrder
        /\ \A i \in 1..Len(returned) :
             LastOfItsName(i) =>
               /\ HasKey(results_store, NameOf(i))
               /\ StoreGet(NameOf(i)) = returned[i].res[1]
               /\ CallsSucceeded(i) => FullSuccess(StoreGet(NameOf(i)))
               /\ OcrCallFailed(i) => "error" \in DOMAIN StoreGet(NameOf(i))

C4_Witness ==
    /\ Completed
    /\ Len(returned) = 3
    /\ NameOf(1) # NameOf(2)
    /\ NameOf(3) = NameOf(1)
    /\ CallsSucceeded(1)
    /\ OcrCallFailed(2)
    /\ CallsSucceeded(3)
    /\ Len(returned[3].ocr[1].pages) = 2
    /\ StoreGet(NameOf(3)) = returned[3].res[1]
    /\ "error" \in DOMAIN StoreGet(NameOf(2))

\* an iteration has just ended by storing a result
StoredNow ==
    /\ Len(returned') = Len(returned) + 1
    /\ returned'[Len(returned')].res # Absent

EntriesOf(store, name) == { k \in 1..Len(store) : store[k].name = name }

\* C5: storing a result under a name leaves exactly one entry under that name,
\* holding exactly the result just stored (nothing of an earlier result under
\* the name survives), whether the earlier one came from this batch or from a
\* previous one; no name ever has two entries and the other entries are kept.
C5_LastWriteWins ==
    /\ [][StoredNow =>
            LET name == NameOf(idx)
                res == returned'[Len(returned')].res[1]
            IN  /\ Cardinality(EntriesOf(results_store', name)) = 1
                /\ \A k \in EntriesOf(results_store', name) : results_store'[k].res = res
                /\ Len(results_store') =
                     IF HasKey(results_store, name) THEN Len(results_store)
                     ELSE Len(results_store) + 1
                /\ \A k \in 1..Len(results_store) :
                     results_store[k].name # name => results_store'[k] = results_store[k]]_vars
    /\ [](\A j, k \in 1..Len(results_store) :
            results_store[j].name = results_store[k].name => j = k)

C5_Witness ==
    /\ Completed
    /\ Len(returned) = 2
    /\ NameOf(1) = NameOf(2)
    /\ CallsSucceeded(1)
    /\ OcrCallFailed(2)
    /\ Len(results_store) = 2
    /\ results_store[1].name = "b"
    /\ results_store[2].name = NameOf(2)
    /\ results_store[2].res = returned[2].res[1]
    /\ DOMAIN results_store[2].res = {"error"}

MissingKeyMessage == "Chiave API mancante nella barra laterale."

\* C6: a batch submitted without a key stops before the loop: the step leaves
\* the store as it was, no document is encoded and no call is issued, and the
\* loop is never entered while the key is missing.
C6_NoKeyNoWork ==
    /\ [][(pc = "idle" /\ start_processing' /\ ~api_key_input') =>
            /\ results_store' = results_store
            /\ pc' = "idle"
            /\ outstanding' = {}
            /\ call_log' = <<>>
            /\ returned' = <<>>
            /\ ui_errors' = {MissingKeyMessage}]_vars
    /\ [](~api_key_input =>
            pc = "idle" /\ outstanding = {} /\ call_log = <<>> /\ returned = <<>>)

C6_Witness ==
    /\ start_processing
    /\ ~api_key_input
    /\ pc = "idle"
    /\ Len(input_data) = 2
    /\ Len(results_store) = 2
    /\ MissingKeyMessage \in ui_errors

\* an iteration has just ended on an encoding failure
EncodeFailedNow ==
    /\ Len(returned') = Len(returned) + 1
    /\ ~returned'[Len(returned')].encoded

\* C7 as stated: after a batch, every document whose encoding failed has an
\* entry under its name in the store, carrying error.
C7_EncodeFailureRecorded ==
    Completed =>
        \A i \in 1..Len(returned) :
            ~returned[i].encoded =>
                HasKey(results_store, NameOf(i)) /\ "error" \in DOMAIN StoreGet(NameOf(i))

\* C7 amended: an encoding failure ends only that document's iteration: no OCR
\* or chat call is made for it, the loop goes on with the next document, and
\* the failure is shown as an error message while the store is left as it was
\* (no entry is written under the document's name).
C7_EncodeFailureSkipsDocument ==
    /\ [][EncodeFailedNow =>
            /\ results_store' = results_store
            /\ call_log' = call_log
            /\ outstanding' = {}
            /\ "Errore encoding file" \in ui_errors'
            /\ IF idx < Len(input_data)
               THEN pc' = "loop" /\ idx' = idx + 1
               ELSE pc' = "idle" /\ status_text' = "completed"]_vars
    /\ [](\A i \in 1..Len(returned) :
            ~returned[i].encoded => \A k \in 1..Len(call_log) : call_log[k].idx # i)
    /\ [](Completed => Len(returned) = Len(input_data))

C7_Witness ==
    /\ Completed
    /\ Len(returned) = 2
    /\ ~returned[1].encoded
    /\ CallsSucceeded(2)
    /\ NameOf(1) # NameOf(2)
    /\ ~HasKey(results_store, NameOf(1))
    /\ HasKey(results_store, NameOf(2))
    /\ "Errore encoding file" \in ui_errors

\* C9: every entry of the store has either error alone, or raw_ocr and
\* normalized together with pages_count >= 1 and no error.
C9_ErrorXorTexts ==
    \A k \in 1..Len(results_store) :
        LET res == results_store[k].res IN
        IF "error" \in DOMAIN res
        THEN "raw_ocr" \notin DOMAIN res /\ "normalized" \notin DOMAIN res
        ELSE /\ "raw_ocr" \in DOMAIN res
             /\ "normalized" \in DOMAIN res
             /\ "pages_count" \in DOMAIN res
             /\ res["pages_count"] >= 1

C9_Witness ==
    /\ Len(results_store) = 2
    /\ DOMAIN results_store[1].res = {"error"}
    /\ results_store[1].res["error"] = OCR_EMPTY
    /\ "error" \notin DOMAIN results_store[2].res
    /\ results_store[2].res["normalized"] \in ErrorIndicators

\* C10: at most one call to the external services is outstanding; while the OCR
\* call of a document is outstanding every earlier document of the batch has
\* finished and, if encoded, has its result in the store; a chat call is
\* outstanding only after the OCR call of the same document was issued and has
\* returned with pages.
C10_OneCallAtATime ==
    /\ Cardinality(outstanding) <= 1
    /\ (pc \in {"idle", "loop"}) => outstanding = {}
    /\ \A c \in outstanding :
         /\ c.idx = idx
         /\ Len(returned) = idx - 1
         /\ \A i \in 1..(idx - 1) :
              LastOfItsName(i) =>
                HasKey(results_store, NameOf(i)) /\ StoreGet(NameOf(i)) = returned[i].res[1]
         /\ c.svc = "ocr" => pc = "ocr" /\ call_log[Len(call_log)] = [svc |-> "ocr", idx |-> idx]
         /\ c.svc = "chat" =>
              /\ pc = "chat"
              /\ Len(call_log) >= 2
              /\ call_log[Len(call_log)] = [svc |-> "chat", idx |-> idx]
              /\ call_log[Len(call_log) - 1] = [svc |-> "ocr", idx |-> idx]
              /\ results # Absent
              /\ c.request.raw = results[1]["raw_ocr"]
    /\ \A k \in 1..(Len(call_log) - 1) : call_log[k].idx <= call_log[k + 1].idx

C10_Witness ==
    /\ pc = "chat"
    /\ idx = 2
    /\ Cardinality(outstanding) = 1
    /\ CallsSucceeded(1)
    /\ Len(call_log) = 4

====
